---- MODULE Spec2Model ----
(***************************************************************************)
(* Model of figures/create_figures.py: a script that draws four figures    *)
(* with a pyplot-style plotting surface and exports each one to a PDF and  *)
(* a PNG file.                                                             *)
(*                                                                         *)
(* Lengths and coordinates are fixed-point integers in thousandths of a    *)
(* data unit (7.2 is written 7200, 0.35 is written 350), so that every     *)
(* literal of the script and every half of a width or height is exact.    *)
(* Each figure routine is a straight-line sequence of calls; the model     *)
(* holds that sequence as a list of call records (the routine's body, one  *)
(* record per call, loops over literal lists unrolled) and has one action  *)
(* per kind of call.  Text styling (font size, weight, alpha) is not part  *)
(* of the drawn items.                                                     *)
(***************************************************************************)
EXTENDS Integers, Sequences, FiniteSets, TLC

VARIABLES
    COLORS,     \* the module-level palette dictionary
    rcParams,   \* the plotting defaults set at import
    status,     \* "running" | "done" | "failed"; the helper harness uses "ready" | "returned" | "KeyError"
    mpc,        \* index of the next statement of the __main__ block
    fig,        \* the figure routine being executed, or "none"
    ipc,        \* index of the next call of that routine
    figs,       \* the open figures of the plotting surface, the current one last
    locals,     \* the local variables of the running routine (anchor dictionaries, lists of them)
    files,      \* the working directory: file name -> content
    written,    \* the file names this process has written
    console,    \* the lines printed by this process
    log,        \* the draw instructions issued by this process, in order
    run,        \* number of the current invocation of the script
    okLog,      \* draw instructions of the last invocation that completed
    okFiles,    \* working directory as the last completed invocation left it
    last        \* the call executed by the last step

vars == <<COLORS, rcParams, status, mpc, fig, ipc, figs, locals, files, written,
          console, log, run, okLog, okFiles, last>>

\* Number of invocations of the script the model follows.
MaxRuns == 2

-----------------------------------------------------------------------------
(* Module-level state *)

Palette ==
    [ root |-> "#263238",
      local |-> "#1565C0", local_bg |-> "#E3F2FD", local_border |-> "#1976D2",
      global |-> "#2E7D32", global_bg |-> "#E8F5E9", global_border |-> "#388E3C",
      llm |-> "#E65100", llm_bg |-> "#FFF3E0", llm_border |-> "#EF6C00",
      method |-> "#F5F5F5", text_primary |-> "#212121",
      connector |-> "#616161", arrow |-> "#616161",
      decision |-> "#F39C12", recommend |-> "#9B59B6" ]

RcDefaults ==
    [ font_family |-> "serif", font_size |-> 9, axes_labelsize |-> 10,
      axes_titlesize |-> 11, figure_dpi |-> 300, savefig_dpi |-> 300,
      savefig_bbox |-> "tight", savefig_pad_inches |-> 100 ]

PATTERNS == [ local |-> "///", global |-> "...", llm |-> "xxx" ]

\* f"{category}_bg", f"{category}_border"
BgKey(category) ==
    CASE category = "local" -> "local_bg"
      [] category = "global" -> "global_bg"
      [] category = "llm" -> "llm_bg"

BorderKey(category) ==
    CASE category = "local" -> "local_border"
      [] category = "global" -> "global_border"
      [] category = "llm" -> "llm_border"

-----------------------------------------------------------------------------
(* Drawn items.  Every item has the same fields, so items compare. *)

Item(kind, shape, pts, face, edge, text, lw, z) ==
    [ kind |-> kind, shape |-> shape, pts |-> pts, face |-> face, edge |-> edge,
      text |-> text, lw |-> lw, z |-> z, hatch |-> "" ]

\* A patch drawn with a hatch pattern.
Hatched(item, pattern) == [item EXCEPT !.hatch = pattern]

\* ax.add_patch(<patch>)
PatchItem(shape, pts, face, edge, lw, z) == Item("patch", shape, pts, face, edge, "", lw, z)

\* ax.text(x, y, s, color=...)
TextItem(x, y, s, color, z) == Item("text", "text", << <<x, y>> >>, color, "none", s, 0, z)

\* ax.plot([x1, x2], [y1, y2], color=..., linewidth=...)
LineItem(p, q, color, lw, z) == Item("line", "segment", <<p, q>>, "none", color, "", lw, z)

\* ax.annotate('', xy=end, xytext=start, arrowprops=dict(arrowstyle='->', ...))
ArrowItem(p, q, color, lw, z) == Item("arrow", "->", <<p, q>>, "none", color, "", lw, z)

\* A new figure with one axes: plt.subplots(); the default view is 0..1.
NewFigure(w, h) ==
    [ size |-> <<w, h>>, xlim |-> <<0, 1000>>, ylim |-> <<0, 1000>>, axis |-> "on",
      items |-> <<>>, legend |-> <<>>, caption |-> "", cfg |-> <<>> ]

\* The result of a helper: the axes' items after the call, and the value returned.
Ret(ax, ret) == [ ax |-> ax, ret |-> ret ]

NoneValue == [ none |-> TRUE ]

-----------------------------------------------------------------------------
(* Helpers of create_taxonomy_diagram *)

draw_background_region(ax, x, width, color, pattern) ==
    Ret(Append(ax, Hatched(Item("patch", "Rectangle", << <<x, 800>>, <<width, 6500>> >>,
                                color, "none", "", 0, -1),
                           pattern)),
        NoneValue)

draw_root(ax, pal, x, y, text) ==
    Ret(ax \o << PatchItem("FancyBboxPatch", << <<x - 2000, y - 400>>, <<4000, 800>> >>,
                           pal["root"], "#37474F", 2500, 10),
                 TextItem(x, y, text, "white", 11) >>,
        [ center |-> <<x, y>>, bottom |-> <<x, y - 400>>, top |-> <<x, y + 400>> ])

draw_category(ax, pal, x, y, text, category) ==
    Ret(ax \o << PatchItem("FancyBboxPatch", << <<x - 1800, y - 350>>, <<3600, 700>> >>,
                           pal[BgKey(category)], pal[BorderKey(category)], 2000, 8),
                 TextItem(x, y, text, pal[category], 9) >>,
        [ center |-> <<x, y>>, bottom |-> <<x, y - 350>>, top |-> <<x, y + 350>> ])

\* Variant of draw_method whose 'top' anchor lies 2.0 above the centre.
draw_method_high_top(ax, pal, x, y, text) ==
    Ret(Append(ax, Item("text", "round", << <<x, y>> >>, "white", "#E0E0E0", text, 800, 4)),
        [ center |-> <<x, y>>, top |-> <<x, y + 2000>> ])

\* The method label is a text with a white rounded bbox; it returns no 'bottom'.
draw_method(ax, pal, x, y, text) ==
    Ret(Append(ax, Item("text", "round", << <<x, y>> >>, "white", "#E0E0E0", text, 800, 4)),
        [ center |-> <<x, y>>, top |-> <<x, y + 200>> ])

\* Offset of the horizontal bar below the parent's bottom anchor.
BarOffset == 300

RECURSIVE MinX(_)
MinX(pts) ==
    IF Len(pts) = 1 THEN pts[1][1]
    ELSE LET m == MinX(Tail(pts)) IN IF pts[1][1] < m THEN pts[1][1] ELSE m

RECURSIVE MaxX(_)
MaxX(pts) ==
    IF Len(pts) = 1 THEN pts[1][1]
    ELSE LET m == MaxX(Tail(pts)) IN IF pts[1][1] > m THEN pts[1][1] ELSE m

\* The body of draw_tree_connection after its guard.
TreeSegments(parent_bottom, children_tops, color, lw) ==
    LET bar_y == parent_bottom[2] - BarOffset
    IN  << LineItem(parent_bottom, <<parent_bottom[1], bar_y>>, color, lw, 1),
           LineItem(<<MinX(children_tops), bar_y>>, <<MaxX(children_tops), bar_y>>, color, lw, 1) >>
        \o [ i \in 1..Len(children_tops) |->
               LineItem(<<children_tops[i][1], bar_y>>, children_tops[i], color, lw, 1) ]

\* Variant of draw_tree_connection whose bar runs from the first child to the last
\* one, as if the children were always given left to right.
draw_tree_connection_first_last(ax, parent_bottom, children_tops, color, lw) ==
    IF children_tops = <<>>
    THEN Ret(ax, NoneValue)
    ELSE LET bar_y == parent_bottom[2] - BarOffset
         IN  Ret(ax \o << LineItem(parent_bottom, <<parent_bottom[1], bar_y>>, color, lw, 1),
                          LineItem(<<children_tops[1][1], bar_y>>,
                                   <<children_tops[Len(children_tops)][1], bar_y>>,
                                   color, lw, 1) >>
                    \o [ i \in 1..Len(children_tops) |->
                           LineItem(<<children_tops[i][1], bar_y>>, children_tops[i],
                                    color, lw, 1) ],
                 NoneValue)

\* Variant of draw_tree_connection without its guard: with no children the parent
\* stub is drawn and min() of the empty sequence raises ValueError.
draw_tree_connection_no_guard(ax, parent_bottom, children_tops, color, lw) ==
    IF children_tops = <<>>
    THEN Ret(Append(ax, LineItem(parent_bottom,
                                 <<parent_bottom[1], parent_bottom[2] - BarOffset>>,
                                 color, lw, 1)),
             [raise |-> "ValueError"])
    ELSE Ret(ax \o TreeSegments(parent_bottom, children_tops, color, lw), NoneValue)

draw_tree_connection(ax, parent_bottom, children_tops, color, lw) ==
    IF children_tops = <<>>
    THEN Ret(ax, NoneValue)
    ELSE Ret(ax \o TreeSegments(parent_bottom, children_tops, color, lw), NoneValue)

-----------------------------------------------------------------------------
(* Helpers of create_decision_tree *)

\* Variant of draw_diamond with the face and edge colours exchanged.
draw_diamond_swapped(ax, x, y, text, color, size) ==
    Ret(ax \o << PatchItem("Polygon",
                           << <<x, y + size>>, <<x + size, y>>, <<x, y - size>>, <<x - size, y>> >>,
                           "#2C3E50", "#2C3E50", 1500, 10),
                 TextItem(x, y, text, "#2C3E50", 11) >>,
        [ top |-> <<x, y + size>>, bottom |-> <<x, y - size>>,
          left |-> <<x - size, y>>, right |-> <<x + size, y>> ])

draw_diamond(ax, x, y, text, color, size) ==
    Ret(ax \o << PatchItem("Polygon",
                           << <<x, y + size>>, <<x + size, y>>, <<x, y - size>>, <<x - size, y>> >>,
                           color, "#2C3E50", 1500, 10),
                 TextItem(x, y, text, "#2C3E50", 11) >>,
        [ top |-> <<x, y + size>>, bottom |-> <<x, y - size>>,
          left |-> <<x - size, y>>, right |-> <<x + size, y>> ])

\* Variant of draw_rect whose side anchors lie a whole width from the centre.
draw_rect_full_width(ax, x, y, text, color, width, height) ==
    Ret(ax \o << PatchItem("FancyBboxPatch",
                           << <<x - width \div 2, y - height \div 2>>, <<width, height>> >>,
                           color, "#2C3E50", 1300, 10),
                 TextItem(x, y, text, "white", 11) >>,
        [ top |-> <<x, y + height \div 2>>, bottom |-> <<x, y - height \div 2>>,
          left |-> <<x - width, y>>, right |-> <<x + width, y>> ])

draw_rect(ax, x, y, text, color, width, height) ==
    Ret(ax \o << PatchItem("FancyBboxPatch",
                           << <<x - width \div 2, y - height \div 2>>, <<width, height>> >>,
                           color, "#2C3E50", 1300, 10),
                 TextItem(x, y, text, "white", 11) >>,
        [ top |-> <<x, y + height \div 2>>, bottom |-> <<x, y - height \div 2>>,
          left |-> <<x - width \div 2, y>>, right |-> <<x + width \div 2, y>> ])

\* Variant of draw_start that returns only the bottom anchor.
draw_start_bottom_only(ax, x, y, text, color) ==
    Ret(ax \o << PatchItem("FancyBboxPatch", << <<x - 1500, y - 400>>, <<3000, 800>> >>,
                           color, "#2C3E50", 2000, 10),
                 TextItem(x, y, text, "white", 11) >>,
        [ bottom |-> <<x, y - 400>> ])

draw_start(ax, x, y, text, color) ==
    Ret(ax \o << PatchItem("FancyBboxPatch", << <<x - 1500, y - 400>>, <<3000, 800>> >>,
                           color, "#2C3E50", 2000, 10),
                 TextItem(x, y, text, "white", 11) >>,
        [ bottom |-> <<x, y - 400>>, top |-> <<x, y + 400>> ])

\* The white-boxed italic label of an arrow.
LabelItem(x, y, label) == Item("text", "round", << <<x, y>> >>, "white", "none", label, 0, 6)

draw_arrow(ax, pal, start, end, label, label_offset) ==
    LET arrow == ArrowItem(start, end, pal["arrow"], 1800, 5)
        mid_x == (start[1] + end[1]) \div 2 + label_offset[1]
        mid_y == (start[2] + end[2]) \div 2 + label_offset[2]
    IN  Ret(IF label # ""
            THEN ax \o << arrow, LabelItem(mid_x, mid_y, label) >>
            ELSE Append(ax, arrow),
            NoneValue)

draw_elbow_arrow(ax, pal, start, mid_x, end, label, label_pos) ==
    LET horizontal == LineItem(start, <<mid_x, start[2]>>, pal["arrow"], 1800, 5)
        vertical == ArrowItem(<<mid_x, start[2]>>, end, pal["arrow"], 1800, 5)
        lx == IF label_pos = "start" THEN (start[1] + mid_x) \div 2 ELSE mid_x
        ly == IF label_pos = "start" THEN start[2] + 200 ELSE (start[2] + end[2]) \div 2
    IN  Ret(IF label # ""
            THEN ax \o << horizontal, vertical, LabelItem(lx, ly, label) >>
            ELSE ax \o << horizontal, vertical >>,
            NoneValue)

-----------------------------------------------------------------------------
(* Helpers of create_explainability_approaches *)

draw_box(ax, pal, x, y, text, color, width, height) ==
    LET text_color == IF color \in {pal["root"], "#3498DB", "#27AE60", "#E67E22"}
                      THEN "white" ELSE "#2C3E50"
    IN  Ret(ax \o << PatchItem("FancyBboxPatch",
                               << <<x - width \div 2, y - height \div 2>>, <<width, height>> >>,
                               color, "#2C3E50", 1300, 10),
                     TextItem(x, y, text, text_color, 11) >>,
            [ center |-> <<x, y>>, bottom |-> <<x, y - height \div 2>>,
              top |-> <<x, y + height \div 2>> ])

\* Variant of draw_elbow_connection whose last segment starts at the height of the
\* start anchor instead of the height of the horizontal run.
draw_elbow_connection_gap(ax, start, end, color, lw) ==
    LET mid_y == (start[2] + end[2]) \div 2
    IN  Ret(ax \o << LineItem(start, <<start[1], mid_y>>, color, lw, 1),
                     LineItem(<<start[1], mid_y>>, <<end[1], mid_y>>, color, lw, 1),
                     LineItem(<<end[1], start[2]>>, end, color, lw, 1) >>,
            NoneValue)

draw_elbow_connection(ax, start, end, color, lw) ==
    LET mid_y == (start[2] + end[2]) \div 2
    IN  Ret(ax \o << LineItem(start, <<start[1], mid_y>>, color, lw, 1),
                     LineItem(<<start[1], mid_y>>, <<end[1], mid_y>>, color, lw, 1),
                     LineItem(<<end[1], mid_y>>, end, color, lw, 1) >>,
            NoneValue)

draw_vertical_connection(ax, start, end, color, lw) ==
    Ret(Append(ax, LineItem(start, end, color, lw, 1)), NoneValue)

-----------------------------------------------------------------------------
(* The four figure routines *)

\* The body of create_taxonomy_diagram, one record per call.
create_taxonomy_diagram ==
    <<
      [op |-> "subplots", w |-> 16000, h |-> 8000],
      [op |-> "set_xlim", lo |-> 0, hi |-> 16000],
      [op |-> "set_ylim", lo |-> 0, hi |-> 8000],
      [op |-> "axis_off"],
      [op |-> "draw_background_region", x |-> 500, width |-> 5000, color |-> "local_bg", pattern |-> "local"],
      [op |-> "draw_background_region", x |-> 5500, width |-> 5000, color |-> "global_bg", pattern |-> "global"],
      [op |-> "draw_background_region", x |-> 10500, width |-> 5000, color |-> "llm_bg", pattern |-> "llm"],
      [op |-> "draw_root", x |-> 8000, y |-> 7200, text |-> "Explainable NLP Methods", out |-> "root"],
      [op |-> "draw_category", x |-> 3000, y |-> 5500, text |-> "Local Explanations\n(Single Prediction)", category |-> "local", out |-> "local_cat"],
      [op |-> "draw_category", x |-> 8000, y |-> 5500, text |-> "Global Explanations\n(Model-Wide)", category |-> "global", out |-> "global_cat"],
      [op |-> "draw_category", x |-> 13000, y |-> 5500, text |-> "LLM-Era Methods", category |-> "llm", out |-> "llm_cat"],
      [op |-> "draw_tree_connection", parent |-> << "root", "bottom" >>, refs |-> << << "local_cat", "top" >>, << "global_cat", "top" >>, << "llm_cat", "top" >> >>, list |-> "", key |-> "top", color |-> "connector", lw |-> 2000],
      [op |-> "draw_method", x |-> 800, y |-> 3100, text |-> "LIME", append |-> "local_methods"],
      [op |-> "draw_method", x |-> 1600, y |-> 3100, text |-> "SHAP", append |-> "local_methods"],
      [op |-> "draw_method", x |-> 2400, y |-> 3100, text |-> "Anchors", append |-> "local_methods"],
      [op |-> "draw_method", x |-> 800, y |-> 2500, text |-> "Integrated\nGradients", append |-> "local_methods"],
      [op |-> "draw_method", x |-> 1800, y |-> 2500, text |-> "LRP", append |-> "local_methods"],
      [op |-> "draw_method", x |-> 2600, y |-> 2500, text |-> "DeepLIFT", append |-> "local_methods"],
      [op |-> "draw_method", x |-> 3500, y |-> 3100, text |-> "Attention\nWeights", append |-> "local_methods"],
      [op |-> "draw_method", x |-> 4500, y |-> 3100, text |-> "Attention\nRollout", append |-> "local_methods"],
      [op |-> "draw_method", x |-> 3500, y |-> 2500, text |-> "Counterfactual", append |-> "local_methods"],
      [op |-> "draw_method", x |-> 4500, y |-> 2500, text |-> "Contrastive", append |-> "local_methods"],
      [op |-> "draw_method", x |-> 3500, y |-> 1900, text |-> "Influence\nFunctions", append |-> "local_methods"],
      [op |-> "draw_method", x |-> 4500, y |-> 1900, text |-> "Prototypes", append |-> "local_methods"],
      [op |-> "draw_tree_connection", parent |-> << "local_cat", "bottom" >>, refs |-> <<  >>, list |-> "local_methods", key |-> "top", color |-> "local", lw |-> 1800],
      [op |-> "draw_method", x |-> 6500, y |-> 2500, text |-> "Rule\nExtraction", append |-> "global_methods"],
      [op |-> "draw_method", x |-> 7500, y |-> 2500, text |-> "SHAP\nGlobal", append |-> "global_methods"],
      [op |-> "draw_method", x |-> 8500, y |-> 2500, text |-> "TCAV", append |-> "global_methods"],
      [op |-> "draw_method", x |-> 9500, y |-> 2500, text |-> "Diagnostic\nClassifiers", append |-> "global_methods"],
      [op |-> "draw_tree_connection", parent |-> << "global_cat", "bottom" >>, refs |-> <<  >>, list |-> "global_methods", key |-> "top", color |-> "global", lw |-> 1500],
      [op |-> "draw_method", x |-> 11500, y |-> 3100, text |-> "Chain-of-Thought\nZero-shot", append |-> "llm_methods"],
      [op |-> "draw_method", x |-> 13000, y |-> 3100, text |-> "Chain-of-Thought\nFew-shot", append |-> "llm_methods"],
      [op |-> "draw_method", x |-> 11500, y |-> 2500, text |-> "Self-Critique", append |-> "llm_methods"],
      [op |-> "draw_method", x |-> 13000, y |-> 2500, text |-> "Rationale\nGeneration", append |-> "llm_methods"],
      [op |-> "draw_method", x |-> 12200, y |-> 1900, text |-> "Mechanistic\nCircuits", append |-> "llm_methods"],
      [op |-> "draw_method", x |-> 13800, y |-> 1900, text |-> "Feature\nAnalysis", append |-> "llm_methods"],
      [op |-> "draw_tree_connection", parent |-> << "llm_cat", "bottom" >>, refs |-> <<  >>, list |-> "llm_methods", key |-> "top", color |-> "llm", lw |-> 1500],
      [op |-> "legend", entries |-> << [face |-> "local_bg", edge |-> "local_border", hatch |-> "local", label |-> "Local Methods"], [face |-> "global_bg", edge |-> "global_border", hatch |-> "global", label |-> "Global Methods"], [face |-> "llm_bg", edge |-> "llm_border", hatch |-> "llm", label |-> "LLM-Era Methods"] >>],
      [op |-> "text", x |-> 8000, y |-> 400, text |-> "Figure 4: Taxonomy of Explainable NLP Methods", color |-> "text_primary", z |-> 3000, role |-> "caption"],
      [op |-> "tight_layout"],
      [op |-> "savefig", name |-> "taxonomy_diagram.pdf", format |-> "pdf"],
      [op |-> "savefig", name |-> "taxonomy_diagram.png", format |-> "png"],
      [op |-> "print", text |-> "Created: taxonomy_diagram.pdf and .png"],
      [op |-> "close"]
    >>

\* The body of create_decision_tree; the loop over the four audiences is unrolled.
create_decision_tree ==
    <<
      [op |-> "subplots", w |-> 15000, h |-> 10000],
      [op |-> "set_xlim", lo |-> 0, hi |-> 15000],
      [op |-> "set_ylim", lo |-> 0, hi |-> 10000],
      [op |-> "axis_off"],
      [op |-> "draw_start", x |-> 7500, y |-> 9300, text |-> "Select XAI Method", out |-> "start"],
      [op |-> "draw_diamond", x |-> 7500, y |-> 7800, text |-> "Model\nAccess?", out |-> "d1"],
      [op |-> "draw_arrow", start |-> << "start", "bottom" >>, end |-> << "d1", "top" >>, label |-> ""],
      [op |-> "draw_diamond", x |-> 2800, y |-> 6000, text |-> "Explanation\nScope?", out |-> "d2_full"],
      [op |-> "draw_elbow_arrow", start |-> << "d1", "left" >>, mid_x |-> 2800, end |-> << "d2_full", "top" >>, label |-> "Full Access", label_pos |-> "start"],
      [op |-> "draw_rect", x |-> 1300, y |-> 4000, text |-> "Integrated Gradients\nAttention\nSHAP", color |-> "#3498DB", width |-> 2000, height |-> 900, out |-> "r_local"],
      [op |-> "draw_elbow_arrow", start |-> << "d2_full", "left" >>, mid_x |-> 1300, end |-> << "r_local", "top" >>, label |-> "Local", label_pos |-> "start"],
      [op |-> "draw_rect", x |-> 3800, y |-> 4000, text |-> "Probing Classifiers\nTCAV\nDistillation", color |-> "#27AE60", width |-> 2000, height |-> 900, out |-> "r_global"],
      [op |-> "draw_elbow_arrow", start |-> << "d2_full", "right" >>, mid_x |-> 3800, end |-> << "r_global", "top" >>, label |-> "Global", label_pos |-> "start"],
      [op |-> "draw_diamond", x |-> 7500, y |-> 6000, text |-> "Is it\nan LLM?", out |-> "d2_api"],
      [op |-> "draw_arrow", start |-> << "d1", "bottom" >>, end |-> << "d2_api", "top" >>, label |-> "API Only"],
      [op |-> "draw_rect", x |-> 6500, y |-> 4000, text |-> "Chain-of-Thought\nSelf-Explanation", color |-> "#E67E22", width |-> 2000, height |-> 800, out |-> "r_llm_yes"],
      [op |-> "draw_elbow_arrow", start |-> << "d2_api", "left" >>, mid_x |-> 6500, end |-> << "r_llm_yes", "top" >>, label |-> "Yes", label_pos |-> "start"],
      [op |-> "draw_rect", x |-> 9000, y |-> 4000, text |-> "LIME\nAnchors", color |-> "#9B59B6", width |-> 1600, height |-> 700, out |-> "r_llm_no"],
      [op |-> "draw_elbow_arrow", start |-> << "d2_api", "right" >>, mid_x |-> 9000, end |-> << "r_llm_no", "top" >>, label |-> "No", label_pos |-> "start"],
      [op |-> "draw_rect", x |-> 12500, y |-> 6000, text |-> "LIME\nCounterfactuals\nAnchors", color |-> "#8E44AD", width |-> 2000, height |-> 900, out |-> "r_blackbox"],
      [op |-> "draw_elbow_arrow", start |-> << "d1", "right" >>, mid_x |-> 12500, end |-> << "r_blackbox", "top" >>, label |-> "Black-box", label_pos |-> "start"],
      [op |-> "add_patch", shape |-> "FancyBboxPatch", pts |-> << << 500, 800 >>, << 14000, 2200 >> >>, face |-> "#F8F9F9", edge |-> "#BDC3C7", lw |-> 1500, z |-> 1000],
      [op |-> "text", x |-> 7500, y |-> 2650, text |-> "Tailor Explanations to Target Audience", color |-> "#2C3E50", z |-> 10000, role |-> "header"],
      [op |-> "add_patch", shape |-> "FancyBboxPatch", pts |-> << << 800, 1650 >>, << 2400, 500 >> >>, face |-> "#1ABC9C", edge |-> "#2C3E50", lw |-> 1200, z |-> 10000],
      [op |-> "text", x |-> 2000, y |-> 1900, text |-> "End Users", color |-> "white", z |-> 11000, role |-> "title"],
      [op |-> "text", x |-> 2000, y |-> 1250, text |-> "Simple highlights\nNatural language", color |-> "#2C3E50", z |-> 10000, role |-> "description"],
      [op |-> "add_patch", shape |-> "FancyBboxPatch", pts |-> << << 4300, 1650 >>, << 2400, 500 >> >>, face |-> "#3498DB", edge |-> "#2C3E50", lw |-> 1200, z |-> 10000],
      [op |-> "text", x |-> 5500, y |-> 1900, text |-> "Domain Experts", color |-> "white", z |-> 11000, role |-> "title"],
      [op |-> "text", x |-> 5500, y |-> 1250, text |-> "Feature importance\nDomain terms", color |-> "#2C3E50", z |-> 10000, role |-> "description"],
      [op |-> "add_patch", shape |-> "FancyBboxPatch", pts |-> << << 8300, 1650 >>, << 2400, 500 >> >>, face |-> "#E74C3C", edge |-> "#2C3E50", lw |-> 1200, z |-> 10000],
      [op |-> "text", x |-> 9500, y |-> 1900, text |-> "ML Practitioners", color |-> "white", z |-> 11000, role |-> "title"],
      [op |-> "text", x |-> 9500, y |-> 1250, text |-> "Gradients\nAttention maps", color |-> "#2C3E50", z |-> 10000, role |-> "description"],
      [op |-> "add_patch", shape |-> "FancyBboxPatch", pts |-> << << 11800, 1650 >>, << 2400, 500 >> >>, face |-> "#95A5A6", edge |-> "#2C3E50", lw |-> 1200, z |-> 10000],
      [op |-> "text", x |-> 13000, y |-> 1900, text |-> "Regulators", color |-> "white", z |-> 11000, role |-> "title"],
      [op |-> "text", x |-> 13000, y |-> 1250, text |-> "Auditable\nMethodology", color |-> "#2C3E50", z |-> 10000, role |-> "description"],
      [op |-> "legend", entries |-> << [face |-> "decision", edge |-> "#2C3E50", hatch |-> "", label |-> "Decision Point"], [face |-> "#9B59B6", edge |-> "#2C3E50", hatch |-> "", label |-> "Recommendation"] >>],
      [op |-> "text", x |-> 7500, y |-> 250, text |-> "Figure 2: Decision Tree for Selecting Explainability Methods", color |-> "#2C3E50", z |-> 3000, role |-> "caption"],
      [op |-> "tight_layout"],
      [op |-> "savefig", name |-> "decision_tree.pdf", format |-> "pdf"],
      [op |-> "savefig", name |-> "decision_tree.png", format |-> "png"],
      [op |-> "print", text |-> "Created: decision_tree.pdf and .png"],
      [op |-> "close"]
    >>

\* The body of create_explainability_approaches.
create_explainability_approaches ==
    <<
      [op |-> "subplots", w |-> 14000, h |-> 8000],
      [op |-> "set_xlim", lo |-> 0, hi |-> 14000],
      [op |-> "set_ylim", lo |-> 0, hi |-> 8000],
      [op |-> "axis_off"],
      [op |-> "draw_box", x |-> 7000, y |-> 7300, text |-> "Explainability Approaches", color |-> "root", width |-> 4000, height |-> 650, out |-> "root"],
      [op |-> "draw_box", x |-> 2500, y |-> 5800, text |-> "By Timing", color |-> "#3498DB", width |-> 2000, height |-> 550, out |-> "timing"],
      [op |-> "draw_box", x |-> 7000, y |-> 5800, text |-> "By Scope", color |-> "#27AE60", width |-> 2000, height |-> 550, out |-> "scope"],
      [op |-> "draw_box", x |-> 11500, y |-> 5800, text |-> "By Model Access", color |-> "#E67E22", width |-> 2400, height |-> 550, out |-> "access"],
      [op |-> "draw_elbow_connection", start |-> << "root", "bottom" >>, end |-> << "timing", "top" >>, color |-> "#5D6D7E", lw |-> 1500],
      [op |-> "draw_vertical_connection", start |-> << "root", "bottom" >>, end |-> << "scope", "top" >>, color |-> "#5D6D7E", lw |-> 1500],
      [op |-> "draw_elbow_connection", start |-> << "root", "bottom" >>, end |-> << "access", "top" >>, color |-> "#5D6D7E", lw |-> 1500],
      [op |-> "draw_box", x |-> 1500, y |-> 4300, text |-> "Direct\nInterpretability", color |-> "#AED6F1", width |-> 1800, height |-> 650, out |-> "direct"],
      [op |-> "draw_box", x |-> 3500, y |-> 4300, text |-> "Post-hoc\nExplanation", color |-> "#AED6F1", width |-> 1800, height |-> 650, out |-> "posthoc"],
      [op |-> "draw_elbow_connection", start |-> << "timing", "bottom" >>, end |-> << "direct", "top" >>, color |-> "#3498DB", lw |-> 1200],
      [op |-> "draw_elbow_connection", start |-> << "timing", "bottom" >>, end |-> << "posthoc", "top" >>, color |-> "#3498DB", lw |-> 1200],
      [op |-> "draw_box", x |-> 6000, y |-> 4300, text |-> "Local\n(Per Instance)", color |-> "#A9DFBF", width |-> 1800, height |-> 650, out |-> "local"],
      [op |-> "draw_box", x |-> 8000, y |-> 4300, text |-> "Global\n(Model-Wide)", color |-> "#A9DFBF", width |-> 1800, height |-> 650, out |-> "global_exp"],
      [op |-> "draw_elbow_connection", start |-> << "scope", "bottom" >>, end |-> << "local", "top" >>, color |-> "#27AE60", lw |-> 1200],
      [op |-> "draw_elbow_connection", start |-> << "scope", "bottom" >>, end |-> << "global_exp", "top" >>, color |-> "#27AE60", lw |-> 1200],
      [op |-> "draw_box", x |-> 10500, y |-> 4300, text |-> "Model-\nSpecific", color |-> "#FAD7A0", width |-> 1700, height |-> 650, out |-> "specific"],
      [op |-> "draw_box", x |-> 12500, y |-> 4300, text |-> "Model-\nAgnostic", color |-> "#FAD7A0", width |-> 1700, height |-> 650, out |-> "agnostic"],
      [op |-> "draw_elbow_connection", start |-> << "access", "bottom" >>, end |-> << "specific", "top" >>, color |-> "#E67E22", lw |-> 1200],
      [op |-> "draw_elbow_connection", start |-> << "access", "bottom" >>, end |-> << "agnostic", "top" >>, color |-> "#E67E22", lw |-> 1200],
      [op |-> "draw_box", x |-> 1500, y |-> 2800, text |-> "Decision Trees\nLinear Models\nRule Lists", color |-> "#F8F9F9", width |-> 1700, height |-> 850, out |-> "direct_ex"],
      [op |-> "draw_vertical_connection", start |-> << "direct", "bottom" >>, end |-> << "direct_ex", "top" >>, color |-> "#85C1E9", lw |-> 1200],
      [op |-> "draw_box", x |-> 3500, y |-> 2800, text |-> "LIME\nSHAP\nAnchors", color |-> "#F8F9F9", width |-> 1700, height |-> 850, out |-> "posthoc_ex"],
      [op |-> "draw_vertical_connection", start |-> << "posthoc", "bottom" >>, end |-> << "posthoc_ex", "top" >>, color |-> "#85C1E9", lw |-> 1200],
      [op |-> "draw_box", x |-> 6000, y |-> 2800, text |-> "Feature Attribution\nCounterfactuals\nInfluence Functions", color |-> "#F8F9F9", width |-> 2000, height |-> 850, out |-> "local_ex"],
      [op |-> "draw_vertical_connection", start |-> << "local", "bottom" >>, end |-> << "local_ex", "top" >>, color |-> "#58D68D", lw |-> 1200],
      [op |-> "draw_box", x |-> 8000, y |-> 2800, text |-> "Model Distillation\nProbing Classifiers\nTCAV", color |-> "#F8F9F9", width |-> 2000, height |-> 850, out |-> "global_ex"],
      [op |-> "draw_vertical_connection", start |-> << "global_exp", "bottom" >>, end |-> << "global_ex", "top" >>, color |-> "#58D68D", lw |-> 1200],
      [op |-> "draw_box", x |-> 10500, y |-> 2800, text |-> "Attention Viz\nLRP\nDeepLIFT", color |-> "#F8F9F9", width |-> 1700, height |-> 850, out |-> "specific_ex"],
      [op |-> "draw_vertical_connection", start |-> << "specific", "bottom" >>, end |-> << "specific_ex", "top" >>, color |-> "#F5B041", lw |-> 1200],
      [op |-> "draw_box", x |-> 12500, y |-> 2800, text |-> "LIME\nSHAP\nAnchors", color |-> "#F8F9F9", width |-> 1700, height |-> 850, out |-> "agnostic_ex"],
      [op |-> "draw_vertical_connection", start |-> << "agnostic", "bottom" >>, end |-> << "agnostic_ex", "top" >>, color |-> "#F5B041", lw |-> 1200],
      [op |-> "legend", entries |-> << [face |-> "#3498DB", edge |-> "#2C3E50", hatch |-> "", label |-> "By Timing"], [face |-> "#27AE60", edge |-> "#2C3E50", hatch |-> "", label |-> "By Scope"], [face |-> "#E67E22", edge |-> "#2C3E50", hatch |-> "", label |-> "By Model Access"] >>],
      [op |-> "tight_layout"],
      [op |-> "savefig", name |-> "explainability_approaches.pdf", format |-> "pdf"],
      [op |-> "savefig", name |-> "explainability_approaches.png", format |-> "png"],
      [op |-> "print", text |-> "Created: explainability_approaches.pdf and .png"],
      [op |-> "close"]
    >>

\* The body of create_accuracy_interpretability; the loops over the six models and
\* the four spines are unrolled.
create_accuracy_interpretability ==
    <<
      [op |-> "subplots", w |-> 11000, h |-> 8000],
      [op |-> "add_patch", shape |-> "Polygon", pts |-> << << 0, 6000 >>, << 0, 10500 >>, << 4500, 10500 >>, << 0, 6000 >> >>, face |-> "#27AE60", edge |-> "none", lw |-> 0, z |-> 0],
      [op |-> "add_patch", shape |-> "Polygon", pts |-> << << 6000, 0 >>, << 10500, 0 >>, << 10500, 4500 >>, << 6000, 0 >> >>, face |-> "#9B59B6", edge |-> "none", lw |-> 0, z |-> 0],
      [op |-> "fill_between", lo |-> 2000, hi |-> 10000, band |-> 1300, color |-> "#3498DB", z |-> 1000],
      [op |-> "plot", lo |-> 2000, hi |-> 10000, color |-> "#3498DB", lw |-> 2000, z |-> 2000],
      [op |-> "scatter", x |-> 3500, y |-> 9500, color |-> "#27AE60"],
      [op |-> "annotate", x |-> 3500, y |-> 9500, text |-> "Linear Regression"],
      [op |-> "scatter", x |-> 4500, y |-> 8500, color |-> "#2ECC71"],
      [op |-> "annotate", x |-> 4500, y |-> 8500, text |-> "Decision Trees"],
      [op |-> "scatter", x |-> 6000, y |-> 6000, color |-> "#F39C12"],
      [op |-> "annotate", x |-> 6000, y |-> 6000, text |-> "K-Nearest Neighbors"],
      [op |-> "scatter", x |-> 7000, y |-> 4500, color |-> "#E67E22"],
      [op |-> "annotate", x |-> 7000, y |-> 4500, text |-> "Random Forests"],
      [op |-> "scatter", x |-> 7800, y |-> 3000, color |-> "#E74C3C"],
      [op |-> "annotate", x |-> 7800, y |-> 3000, text |-> "Support Vector Machines"],
      [op |-> "scatter", x |-> 9000, y |-> 1500, color |-> "#9B59B6"],
      [op |-> "annotate", x |-> 9000, y |-> 1500, text |-> "Deep Neural Networks"],
      [op |-> "set_xlim", lo |-> 0, hi |-> 10500],
      [op |-> "set_ylim", lo |-> 0, hi |-> 10500],
      [op |-> "config", name |-> "set_xlabel", value |-> "Accuracy (Model Performance)"],
      [op |-> "config", name |-> "set_ylabel", value |-> "Interpretability (Human Understanding)"],
      [op |-> "config", name |-> "set_title", value |-> "Accuracy-Interpretability Trade-off in Machine Learning"],
      [op |-> "config", name |-> "grid", value |-> "--"],
      [op |-> "config", name |-> "set_axisbelow", value |-> "True"],
      [op |-> "config", name |-> "set_xticks", value |-> "range(0, 11, 2)"],
      [op |-> "config", name |-> "set_yticks", value |-> "range(0, 11, 2)"],
      [op |-> "config", name |-> "tick_params", value |-> "#2C3E50"],
      [op |-> "text", x |-> 1800, y |-> 9900, text |-> "High Interpretability\nLower Accuracy", color |-> "#27AE60", z |-> 16000, role |-> "zone"],
      [op |-> "text", x |-> 8700, y |-> 900, text |-> "High Accuracy\nLower Interpretability", color |-> "#9B59B6", z |-> 16000, role |-> "zone"],
      [op |-> "config", name |-> "spines.left.set_color", value |-> "#2C3E50"],
      [op |-> "config", name |-> "spines.left.set_linewidth", value |-> "1.5"],
      [op |-> "config", name |-> "spines.right.set_color", value |-> "#2C3E50"],
      [op |-> "config", name |-> "spines.right.set_linewidth", value |-> "1.5"],
      [op |-> "config", name |-> "spines.bottom.set_color", value |-> "#2C3E50"],
      [op |-> "config", name |-> "spines.bottom.set_linewidth", value |-> "1.5"],
      [op |-> "config", name |-> "spines.top.set_color", value |-> "#2C3E50"],
      [op |-> "config", name |-> "spines.top.set_linewidth", value |-> "1.5"],
      [op |-> "tight_layout"],
      [op |-> "savefig", name |-> "accuracy_interpretability.pdf", format |-> "pdf"],
      [op |-> "savefig", name |-> "accuracy_interpretability.png", format |-> "png"],
      [op |-> "print", text |-> "Created: accuracy_interpretability.pdf and .png"],
      [op |-> "close"]
    >>

-----------------------------------------------------------------------------
(* The __main__ block *)

SepLine == "=================================================="

\* Variant of the __main__ block that calls the decision tree before the taxonomy.
Main_swapped ==
    << [op |-> "print", text |-> "Generating figures for XAI Survey Paper..."],
       [op |-> "print", text |-> SepLine],
       [op |-> "call", routine |-> "create_decision_tree"],
       [op |-> "call", routine |-> "create_taxonomy_diagram"],
       [op |-> "call", routine |-> "create_explainability_approaches"],
       [op |-> "call", routine |-> "create_accuracy_interpretability"],
       [op |-> "print", text |-> SepLine],
       [op |-> "print", text |-> "All figures generated successfully!"] >>

Main ==
    << [op |-> "print", text |-> "Generating figures for XAI Survey Paper..."],
       [op |-> "print", text |-> SepLine],
       [op |-> "call", routine |-> "create_taxonomy_diagram"],
       [op |-> "call", routine |-> "create_decision_tree"],
       [op |-> "call", routine |-> "create_explainability_approaches"],
       [op |-> "call", routine |-> "create_accuracy_interpretability"],
       [op |-> "print", text |-> SepLine],
       [op |-> "print", text |-> "All figures generated successfully!"] >>

Script(f) ==
    CASE f = "create_taxonomy_diagram" -> create_taxonomy_diagram
      [] f = "create_decision_tree" -> create_decision_tree
      [] f = "create_explainability_approaches" -> create_explainability_approaches
      [] f = "create_accuracy_interpretability" -> create_accuracy_interpretability

-----------------------------------------------------------------------------
(* Reading the state *)

\* The call the running routine is about to make.
Cur == Script(fig)[ipc]

\* Variant of Running in which the process goes on after an exception.
Running_after_failure == status \in {"running", "failed"}

\* The process executes statements until an exception ends it: nothing catches one.
Running == status = "running"

At(op) == Running /\ fig # "none" /\ Cur.op = op

\* ax: the axes of the figure the routine created, the current figure.
Ax == figs[Len(figs)].items

NoLocals == [ n \in {} |-> n ]

\* A palette entry COLORS[...] or a literal colour.
Color(c) == IF c \in DOMAIN COLORS THEN COLORS[c] ELSE c

\* A keyword argument, or its default.
Opt(ins, field, default) == IF field \in DOMAIN ins THEN ins[field] ELSE default

\* A list variable of the routine (each is initialised to []).
ListOf(name) == IF name \in DOMAIN locals THEN locals[name] ELSE <<>>

Bind(name, v) == (name :> v) @@ locals

AppendTo(name, v) == (name :> Append(ListOf(name), v)) @@ locals

\* var['key']
Anchor(ref) == locals[ref[1]][ref[2]]

\* Variant of Children that loses the last element of the list.
Children_drop_last(ins) ==
    [ i \in 1..Len(ins.refs) |-> Anchor(ins.refs[i]) ]
    \o [ i \in 1..(Len(ListOf(ins.list)) - 1) |-> ListOf(ins.list)[i][ins.key] ]

\* [a['top'], b['top'], ...] or [m['top'] for m in <list>]
Children(ins) ==
    [ i \in 1..Len(ins.refs) |-> Anchor(ins.refs[i]) ]
    \o [ i \in 1..Len(ListOf(ins.list)) |-> ListOf(ins.list)[i][ins.key] ]

-----------------------------------------------------------------------------
(* Steps of a routine *)

\* Variant of Advance in which a returning routine leaves a restyled palette behind.
Advance_palette_write(newLocals) ==
    /\ last' = Cur
    /\ IF ipc = Len(Script(fig))
       THEN /\ fig' = "none" /\ ipc' = 0 /\ mpc' = mpc + 1 /\ locals' = NoLocals
            /\ COLORS' = [COLORS EXCEPT !["root"] = "#000000"]
       ELSE /\ fig' = fig /\ ipc' = ipc + 1 /\ mpc' = mpc /\ locals' = newLocals
            /\ COLORS' = COLORS
    /\ UNCHANGED <<rcParams, status, run, okLog, okFiles>>

\* The statement after the current call; the routine returns after its last call.
Advance(newLocals) ==
    /\ last' = Cur
    /\ IF ipc = Len(Script(fig))
       THEN fig' = "none" /\ ipc' = 0 /\ mpc' = mpc + 1 /\ locals' = NoLocals
       ELSE fig' = fig /\ ipc' = ipc + 1 /\ mpc' = mpc /\ locals' = newLocals
    /\ UNCHANGED <<COLORS, rcParams, status, run, okLog, okFiles>>

\* A call that draws on ax: r is the helper's result.
Draw(r, newLocals) ==
    /\ figs' = [figs EXCEPT ![Len(figs)].items = r.ax]
    /\ log' = log \o SubSeq(r.ax, Len(Ax) + 1, Len(r.ax))
    /\ Advance(newLocals)
    /\ UNCHANGED <<files, written, console>>

\* A call that changes a property of the current figure.
Configure(newFig) ==
    /\ figs' = [figs EXCEPT ![Len(figs)] = newFig]
    /\ Advance(locals)
    /\ UNCHANGED <<files, written, console, log>>

Subplots ==
    /\ At("subplots")
    /\ figs' = Append(figs, NewFigure(Cur.w, Cur.h))
    /\ Advance(locals)
    /\ UNCHANGED <<files, written, console, log>>

SetXlim == At("set_xlim") /\ Configure([figs[Len(figs)] EXCEPT !.xlim = <<Cur.lo, Cur.hi>>])

SetYlim == At("set_ylim") /\ Configure([figs[Len(figs)] EXCEPT !.ylim = <<Cur.lo, Cur.hi>>])

AxisOff == At("axis_off") /\ Configure([figs[Len(figs)] EXCEPT !.axis = "off"])

DrawBackgroundRegion ==
    /\ At("draw_background_region")
    /\ Draw(draw_background_region(Ax, Cur.x, Cur.width, Color(Cur.color), PATTERNS[Cur.pattern]),
            locals)

DrawRoot ==
    /\ At("draw_root")
    /\ LET r == draw_root(Ax, COLORS, Cur.x, Cur.y, Cur.text) IN Draw(r, Bind(Cur.out, r.ret))

DrawCategory ==
    /\ At("draw_category")
    /\ LET r == draw_category(Ax, COLORS, Cur.x, Cur.y, Cur.text, Cur.category)
       IN  Draw(r, Bind(Cur.out, r.ret))

DrawMethod ==
    /\ At("draw_method")
    /\ LET r == draw_method(Ax, COLORS, Cur.x, Cur.y, Cur.text)
       IN  Draw(r, AppendTo(Cur.append, r.ret))

DrawTreeConnection ==
    /\ At("draw_tree_connection")
    /\ Draw(draw_tree_connection(Ax, Anchor(Cur.parent), Children(Cur), Color(Cur.color), Cur.lw),
            locals)

DrawDiamond ==
    /\ At("draw_diamond")
    /\ LET r == draw_diamond(Ax, Cur.x, Cur.y, Cur.text,
                             Opt(Cur, "color", COLORS["decision"]), Opt(Cur, "size", 700))
       IN  Draw(r, Bind(Cur.out, r.ret))

DrawRect ==
    /\ At("draw_rect")
    /\ LET r == draw_rect(Ax, Cur.x, Cur.y, Cur.text, Opt(Cur, "color", COLORS["recommend"]),
                          Opt(Cur, "width", 2000), Opt(Cur, "height", 650))
       IN  Draw(r, Bind(Cur.out, r.ret))

DrawStart ==
    /\ At("draw_start")
    /\ LET r == draw_start(Ax, Cur.x, Cur.y, Cur.text, Opt(Cur, "color", "#27AE60"))
       IN  Draw(r, Bind(Cur.out, r.ret))

DrawArrow ==
    /\ At("draw_arrow")
    /\ Draw(draw_arrow(Ax, COLORS, Anchor(Cur.start), Anchor(Cur.end), Cur.label,
                       Opt(Cur, "label_offset", <<0, 150>>)),
            locals)

DrawElbowArrow ==
    /\ At("draw_elbow_arrow")
    /\ Draw(draw_elbow_arrow(Ax, COLORS, Anchor(Cur.start), Cur.mid_x, Anchor(Cur.end),
                             Cur.label, Cur.label_pos),
            locals)

DrawBox ==
    /\ At("draw_box")
    /\ LET r == draw_box(Ax, COLORS, Cur.x, Cur.y, Cur.text, Color(Cur.color),
                         Cur.width, Cur.height)
       IN  Draw(r, Bind(Cur.out, r.ret))

DrawElbowConnection ==
    /\ At("draw_elbow_connection")
    /\ Draw(draw_elbow_connection(Ax, Anchor(Cur.start), Anchor(Cur.end), Cur.color, Cur.lw),
            locals)

DrawVerticalConnection ==
    /\ At("draw_vertical_connection")
    /\ Draw(draw_vertical_connection(Ax, Anchor(Cur.start), Anchor(Cur.end), Cur.color, Cur.lw),
            locals)

\* ax.add_patch(...) called directly by a routine.
AddPatch ==
    /\ At("add_patch")
    /\ Draw(Ret(Append(Ax, PatchItem(Cur.shape, Cur.pts, Cur.face, Cur.edge, Cur.lw, Cur.z)),
                NoneValue),
            locals)

\* ax.text(...) called directly by a routine; the text under "=== Caption ===" is the caption.
AxText ==
    /\ At("text")
    /\ figs' = [figs EXCEPT ![Len(figs)] =
                  [@ EXCEPT !.items = Append(@, TextItem(Cur.x, Cur.y, Cur.text, Color(Cur.color), Cur.z)),
                            !.caption = IF Cur.role = "caption" THEN Cur.text ELSE @]]
    /\ log' = Append(log, TextItem(Cur.x, Cur.y, Cur.text, Color(Cur.color), Cur.z))
    /\ Advance(locals)
    /\ UNCHANGED <<files, written, console>>

\* mpatches.Patch(facecolor=..., edgecolor=..., hatch=..., label=...)
LegendEntry(e) ==
    Hatched(Item("legend", "Patch", <<>>, Color(e.face), Color(e.edge), e.label, 0, 0),
            IF e.hatch \in DOMAIN PATTERNS THEN PATTERNS[e.hatch] ELSE "")

\* Variant of Legend that builds the handles and never attaches them to the axes.
Legend_not_attached ==
    /\ At("legend")
    /\ Advance(locals)
    /\ UNCHANGED <<figs, files, written, console, log>>

Legend ==
    /\ At("legend")
    /\ LET handles == [ i \in 1..Len(Cur.entries) |-> LegendEntry(Cur.entries[i]) ]
       IN  /\ figs' = [figs EXCEPT ![Len(figs)].legend = handles]
           /\ log' = log \o handles
    /\ Advance(locals)
    /\ UNCHANGED <<files, written, console>>

Clip(v, lo, hi) == IF v < lo THEN lo ELSE IF v > hi THEN hi ELSE v

\* y_curve = np.clip(11 - 1.1 * x_curve, 0.5, 10)
y_curve(x) == Clip(11000 - (11 * x) \div 10, 500, 10000)

\* The curve items carry the first and last of the 100 samples of np.linspace(lo, hi, 100).
FillBetween ==
    /\ At("fill_between")
    /\ Draw(Ret(Append(Ax, Item("fill_between", "band",
                                << <<Cur.lo, y_curve(Cur.lo) - Cur.band, y_curve(Cur.lo) + Cur.band>>,
                                   <<Cur.hi, y_curve(Cur.hi) - Cur.band, y_curve(Cur.hi) + Cur.band>> >>,
                                Cur.color, "none", "", 0, Cur.z)),
                NoneValue),
            locals)

PlotCurve ==
    /\ At("plot")
    /\ Draw(Ret(Append(Ax, Item("line", "--",
                                << <<Cur.lo, y_curve(Cur.lo)>>, <<Cur.hi, y_curve(Cur.hi)>> >>,
                                "none", Cur.color, "", Cur.lw, Cur.z)),
                NoneValue),
            locals)

Scatter ==
    /\ At("scatter")
    /\ Draw(Ret(Append(Ax, Item("scatter", "o", << <<Cur.x, Cur.y>> >>, Cur.color, "#2C3E50",
                                "", 2000, 10)),
                NoneValue),
            locals)

\* The label offsets chosen by the if/elif chain on the model's name.
LabelOffset(name) ==
    CASE name = "Linear Regression" -> [dx |-> 400, dy |-> 0, ha |-> "left"]
      [] name = "Decision Trees" -> [dx |-> 400, dy |-> -100, ha |-> "left"]
      [] name = "K-Nearest Neighbors" -> [dx |-> 400, dy |-> 0, ha |-> "left"]
      [] name = "Random Forests" -> [dx |-> 400, dy |-> 0, ha |-> "left"]
      [] name = "Support Vector Machines" -> [dx |-> -400, dy |-> 0, ha |-> "right"]
      [] OTHER -> [dx |-> 400, dy |-> -100, ha |-> "left"]

Annotate ==
    /\ At("annotate")
    /\ LET o == LabelOffset(Cur.text)
       IN  Draw(Ret(Append(Ax, Item("annotate", o.ha,
                                    << <<Cur.x, Cur.y>>, <<Cur.x + o.dx, Cur.y + o.dy>> >>,
                                    "#2C3E50", "#7F8C8D", Cur.text, 800, 3)),
                    NoneValue),
                locals)

\* Axis labels, title, grid, ticks, spines and tight_layout: settings of the figure.
Config ==
    /\ At("config")
    /\ Configure([figs[Len(figs)] EXCEPT !.cfg = Append(@, <<Cur.name, Cur.value>>)])

TightLayout ==
    /\ At("tight_layout")
    /\ Configure([figs[Len(figs)] EXCEPT !.cfg = Append(@, <<"tight_layout", "">>)])

\* What plt.savefig writes: the current figure, rendered in the given format.
Rendered(format) ==
    [ complete |-> TRUE, format |-> format, dpi |-> rcParams.savefig_dpi,
      bbox |-> "tight", figure |-> figs[Len(figs)] ]

\* A file that was opened for writing and not completed.
Truncated(format) ==
    [ complete |-> FALSE, format |-> format, dpi |-> rcParams.savefig_dpi,
      bbox |-> "tight", figure |-> NewFigure(0, 0) ]

\* Variant of Savefig that writes only the PDF.
Savefig_pdf_only ==
    /\ At("savefig")
    /\ files' = IF Cur.format = "pdf" THEN (Cur.name :> Rendered(Cur.format)) @@ files ELSE files
    /\ written' = IF Cur.format = "pdf" THEN written \cup {Cur.name} ELSE written
    /\ Advance(locals)
    /\ UNCHANGED <<figs, console, log>>

\* Variant of Savefig that keeps an existing file and writes beside it.
Savefig_no_overwrite ==
    /\ At("savefig")
    /\ LET name == IF Cur.name \in DOMAIN files THEN Cur.name \o ".1" ELSE Cur.name
       IN  /\ files' = (name :> Rendered(Cur.format)) @@ files
           /\ written' = written \cup {name}
    /\ Advance(locals)
    /\ UNCHANGED <<figs, console, log>>

\* Variant of Savefig that writes the PNG where the PDF is asked for, and the reverse.
Savefig_png_first ==
    /\ At("savefig")
    /\ LET other == IF Cur.format = "pdf" THEN "png" ELSE "pdf"
           name  == SubSeq(Cur.name, 1, Len(Cur.name) - 3) \o other
       IN  /\ files' = (name :> Rendered(other)) @@ files
           /\ written' = written \cup {name}
    /\ Advance(locals)
    /\ UNCHANGED <<figs, console, log>>

Savefig ==
    /\ At("savefig")
    /\ files' = (Cur.name :> Rendered(Cur.format)) @@ files
    /\ written' = written \cup {Cur.name}
    /\ Advance(locals)
    /\ UNCHANGED <<figs, console, log>>

\* Variant of PrintCreated that prints the line twice.
PrintCreated_twice ==
    /\ At("print")
    /\ console' = console \o <<Cur.text, Cur.text>>
    /\ Advance(locals)
    /\ UNCHANGED <<figs, files, written, log>>

PrintCreated ==
    /\ At("print")
    /\ console' = Append(console, Cur.text)
    /\ Advance(locals)
    /\ UNCHANGED <<figs, files, written, log>>

\* plt.close() closes the current figure.
Close ==
    /\ At("close")
    /\ figs' = SubSeq(figs, 1, Len(figs) - 1)
    /\ Advance(locals)
    /\ UNCHANGED <<files, written, console, log>>

-----------------------------------------------------------------------------
(* Steps of the __main__ block *)

AtMain(op) == Running /\ fig = "none" /\ mpc <= Len(Main) /\ Main[mpc].op = op

MainPrint ==
    /\ AtMain("print")
    /\ console' = Append(console, Main[mpc].text)
    /\ mpc' = mpc + 1
    /\ status' = IF mpc = Len(Main) /\ status = "running" THEN "done" ELSE status
    /\ last' = Main[mpc]
    /\ UNCHANGED <<COLORS, rcParams, fig, ipc, figs, locals, files, written, log, run,
                   okLog, okFiles>>

CallRoutine ==
    /\ AtMain("call")
    /\ fig' = Main[mpc].routine
    /\ ipc' = 1
    /\ locals' = NoLocals
    /\ last' = Main[mpc]
    /\ UNCHANGED <<COLORS, rcParams, status, mpc, figs, files, written, console, log, run,
                   okLog, okFiles>>

-----------------------------------------------------------------------------
(* Failures: an exception raised by the plotting surface is not caught anywhere, *)
(* so it ends the process.                                                       *)

Fail ==
    /\ status = "running" /\ fig # "none"
    /\ status' = "failed"
    /\ UNCHANGED <<COLORS, rcParams, mpc, fig, ipc, figs, locals, files, written, console,
                   log, run, okLog, okFiles, last>>

\* savefig may fail after it has opened its output file.
FailSavefig ==
    /\ status = "running" /\ fig # "none" /\ Cur.op = "savefig"
    /\ status' = "failed"
    /\ files' = (Cur.name :> Truncated(Cur.format)) @@ files
    /\ written' = written \cup {Cur.name}
    /\ UNCHANGED <<COLORS, rcParams, mpc, fig, ipc, figs, locals, console, log, run,
                   okLog, okFiles, last>>

\* The script is invoked again after a run that completed; the working directory is kept.
Rerun ==
    /\ status = "done" /\ run < MaxRuns
    /\ run' = run + 1
    /\ okLog' = log
    /\ okFiles' = files
    /\ status' = "running" /\ mpc' = 1 /\ fig' = "none" /\ ipc' = 0
    /\ COLORS' = Palette /\ rcParams' = RcDefaults
    /\ figs' = <<>> /\ locals' = NoLocals
    /\ written' = {} /\ console' = <<>> /\ log' = <<>>
    /\ last' = [op |-> "import"]
    /\ UNCHANGED files

-----------------------------------------------------------------------------

NoFiles == [ n \in {} |-> n ]

Init ==
    /\ COLORS = Palette /\ rcParams = RcDefaults
    /\ status = "running" /\ mpc = 1 /\ fig = "none" /\ ipc = 0
    /\ figs = <<>> /\ locals = NoLocals
    /\ files = NoFiles /\ written = {} /\ console = <<>> /\ log = <<>>
    /\ run = 1 /\ okLog = <<>> /\ okFiles = NoFiles
    /\ last = [op |-> "import"]

Next ==
    \/ MainPrint \/ CallRoutine
    \/ Subplots \/ SetXlim \/ SetYlim \/ AxisOff
    \/ DrawBackgroundRegion \/ DrawRoot \/ DrawCategory \/ DrawMethod \/ DrawTreeConnection
    \/ DrawDiamond \/ DrawRect \/ DrawStart \/ DrawArrow \/ DrawElbowArrow
    \/ DrawBox \/ DrawElbowConnection \/ DrawVerticalConnection
    \/ AddPatch \/ AxText \/ Legend
    \/ FillBetween \/ PlotCurve \/ Scatter \/ Annotate \/ Config
    \/ TightLayout \/ Savefig \/ PrintCreated \/ Close
    \/ Fail \/ FailSavefig \/ Rerun

Spec == Init /\ [][Next]_vars

-----------------------------------------------------------------------------
(* The routines called on their own: after one run of the script, a second  *)
(* process calls any of the four routines, each at most once, in any order. *)

Routines ==
    { "create_taxonomy_diagram", "create_decision_tree",
      "create_explainability_approaches", "create_accuracy_interpretability" }

\* The names routine r passes to plt.savefig.
SavedBy(r) ==
    { Script(r)[i].name : i \in { j \in DOMAIN Script(r) : Script(r)[j].op = "savefig" } }

\* A step of the running routine.
RoutineStep ==
    \/ Subplots \/ SetXlim \/ SetYlim \/ AxisOff
    \/ DrawBackgroundRegion \/ DrawRoot \/ DrawCategory \/ DrawMethod \/ DrawTreeConnection
    \/ DrawDiamond \/ DrawRect \/ DrawStart \/ DrawArrow \/ DrawElbowArrow
    \/ DrawBox \/ DrawElbowConnection \/ DrawVerticalConnection
    \/ AddPatch \/ AxText \/ Legend
    \/ FillBetween \/ PlotCurve \/ Scatter \/ Annotate \/ Config
    \/ TightLayout \/ Savefig \/ PrintCreated \/ Close

\* The first process runs the script as written.
ScriptRun == run = 1 /\ (MainPrint \/ CallRoutine)

\* A second process imports the module; the working directory is kept.
ImportAgain ==
    /\ status = "done" /\ run = 1
    /\ run' = 2
    /\ okLog' = log
    /\ okFiles' = files
    /\ status' = "running" /\ mpc' = 1 /\ fig' = "none" /\ ipc' = 0
    /\ COLORS' = Palette /\ rcParams' = RcDefaults
    /\ figs' = <<>> /\ locals' = NoLocals
    /\ written' = {} /\ console' = <<>> /\ log' = <<>>
    /\ last' = [op |-> "import"]
    /\ UNCHANGED files

\* It calls a routine it has not called yet.
CallAnyRoutine ==
    /\ run = 2 /\ Running /\ fig = "none"
    /\ \E r \in Routines :
          /\ SavedBy(r) \cap written = {}
          /\ fig' = r
          /\ last' = [op |-> "call", routine |-> r]
    /\ ipc' = 1
    /\ locals' = NoLocals
    /\ UNCHANGED <<COLORS, rcParams, status, mpc, figs, files, written, console, log, run,
                   okLog, okFiles>>

NextAnyOrder == ScriptRun \/ ImportAgain \/ CallAnyRoutine \/ RoutineStep

SpecAnyOrder == Init /\ [][NextAnyOrder]_vars

-----------------------------------------------------------------------------
(* The helpers on their own: one call of one helper, on inputs drawn from   *)
(* bounded sets.  last holds the call, figs the figure it draws on, and     *)
(* locals.ret the value it returned.                                        *)

\* Centre coordinates are drawn from MaxCoord + 1 values, on and off the canvas.
MaxCoord == 2

\* Longest list of child anchors handed to draw_tree_connection.
MaxChildren == 2

Coords == { (c - 1) * 6500 : c \in 0..MaxCoord }

NodeHelpers ==
    { "draw_root", "draw_category", "draw_method", "draw_diamond", "draw_rect",
      "draw_start", "draw_box" }

\* Child anchors lie at two heights, below and above the middle parent height.
ChildPoints == { <<x, y>> : x \in Coords, y \in {-2700, 2700} }

ChildLists == UNION { [1..n -> ChildPoints] : n \in 0..MaxChildren }

\* What is on the axes before the call.
BaseItems == { <<>>, << LineItem(<<0, 0>>, <<1000, 1000>>, "#616161", 1200, 1) >> }

HelperCalls ==
    [ op : NodeHelpers, x : Coords, y : Coords, text : {"", "LIME"},
      category : {"local", "global", "llm"}, children : {<<>>}, color : {"#3498DB"},
      lw : {1200}, base : BaseItems ]
    \cup
    [ op : {"draw_tree_connection"}, x : Coords, y : Coords, text : {""},
      category : {"local"}, children : ChildLists, color : {"#616161", "#1565C0"},
      lw : {1200, 2000}, base : BaseItems ]

HelperInit ==
    /\ COLORS = Palette /\ rcParams = RcDefaults
    /\ last \in HelperCalls
    /\ status = "ready" /\ mpc = 0 /\ fig = "none" /\ ipc = 0
    /\ figs = << [NewFigure(16000, 8000) EXCEPT !.items = last.base] >>
    /\ locals = NoLocals
    /\ files = NoFiles /\ written = {} /\ console = <<>> /\ log = <<>>
    /\ run = 1 /\ okLog = <<>> /\ okFiles = NoFiles

\* The helper named op is called with the drawn inputs and returns r, or raises.
Called(op, r) ==
    /\ status = "ready" /\ last.op = op
    /\ figs' = [figs EXCEPT ![1].items = r.ax]
    /\ locals' = [ret |-> r.ret]
    /\ status' = IF "raise" \in DOMAIN r.ret THEN "raised" ELSE "returned"
    /\ UNCHANGED <<COLORS, rcParams, mpc, fig, ipc, files, written, console, log, run,
                   okLog, okFiles, last>>

CallDrawRoot == Called("draw_root", draw_root(Ax, COLORS, last.x, last.y, last.text))

CallDrawCategory ==
    Called("draw_category", draw_category(Ax, COLORS, last.x, last.y, last.text, last.category))

CallDrawMethod == Called("draw_method", draw_method(Ax, COLORS, last.x, last.y, last.text))

CallDrawDiamond ==
    Called("draw_diamond", draw_diamond(Ax, last.x, last.y, last.text, COLORS["decision"], 700))

CallDrawRect ==
    Called("draw_rect", draw_rect(Ax, last.x, last.y, last.text, COLORS["recommend"], 2000, 650))

CallDrawStart == Called("draw_start", draw_start(Ax, last.x, last.y, last.text, "#27AE60"))

CallDrawBox ==
    Called("draw_box", draw_box(Ax, COLORS, last.x, last.y, last.text, last.color, 2200, 550))

CallDrawTreeConnection ==
    Called("draw_tree_connection",
           draw_tree_connection(Ax, <<last.x, last.y>>, last.children, last.color, last.lw))

HelperNext ==
    \/ CallDrawRoot \/ CallDrawCategory \/ CallDrawMethod
    \/ CallDrawDiamond \/ CallDrawRect \/ CallDrawStart \/ CallDrawBox
    \/ CallDrawTreeConnection

SpecHelpers == HelperInit /\ [][HelperNext]_vars

-----------------------------------------------------------------------------
(* Properties *)

\* The four figures in the order the claims name them, and their output files.
Order ==
    << "create_taxonomy_diagram", "create_decision_tree",
       "create_explainability_approaches", "create_accuracy_interpretability" >>

BaseNames ==
    << "taxonomy_diagram", "decision_tree", "explainability_approaches",
       "accuracy_interpretability" >>

Pdf(k) == BaseNames[k] \o ".pdf"

Png(k) == BaseNames[k] \o ".png"

OutputsOf(k) == { Pdf(k), Png(k) }

EightFiles == UNION { OutputsOf(k) : k \in 1..4 }

\* The file exists and holds a whole rendering, so it is not empty.
Exported(n) == n \in DOMAIN files /\ files[n].complete

\* C1: after a run in which no step fails, both the .pdf and the .png of each of the
\* four base names have been written and are non-empty, and nothing else was written.
C1_EightFilesWritten ==
    status = "done" =>
        /\ written = EightFiles
        /\ DOMAIN files = EightFiles
        /\ \A k \in 1..4 :
              /\ Exported(Pdf(k)) /\ files[Pdf(k)].format = "pdf"
              /\ Exported(Png(k)) /\ files[Png(k)].format = "png"
              /\ files[Png(k)].figure.items # <<>>

C1_Witness == status = "done" /\ run = 1 /\ Cardinality(written) = 8

\* C2: the routines run one after another in the order taxonomy, decision tree,
\* explainability approaches, accuracy-interpretability: while a routine runs, both
\* files of every earlier routine have been written and no file of a later one has,
\* and never is more than one figure open, nor any figure open outside a routine.
C2_OneAfterAnother ==
    /\ Len(figs) <= 1
    /\ fig = "none" => figs = <<>>
    /\ fig # "none" => \E k \in 1..4 : fig = Order[k]
    /\ \A k \in 1..4 :
          fig = Order[k] =>
              /\ \A j \in 1..(k - 1) : OutputsOf(j) \subseteq written
              /\ \A j \in (k + 1)..4 : OutputsOf(j) \cap written = {}

C2_Witness ==
    /\ fig = "create_decision_tree" /\ ipc = 1 /\ status = "running"
    /\ OutputsOf(1) \subseteq written

\* The figures whose routine has returned in this run.
Completed(k) == mpc > k + 2

\* C3: a failing step ends the run: nothing runs after it, no file of a later figure
\* is written, and both files of every figure completed before it stay as they were.
C3_FailureStopsRun ==
    /\ [](status = "failed" =>
            \A k \in 1..4 :
               /\ (fig = Order[k] => \A j \in (k + 1)..4 : OutputsOf(j) \cap written = {})
               /\ (Completed(k) => Exported(Pdf(k)) /\ Exported(Png(k))))
    /\ [][status = "failed" => UNCHANGED vars]_vars
    /\ [][\A k \in 1..4 :
             (Completed(k) /\ run' = run) =>
                 \A n \in OutputsOf(k) : n \in DOMAIN files' /\ files'[n] = files[n]]_vars

C3_Witness ==
    /\ status = "failed" /\ fig = "create_explainability_approaches"
    /\ OutputsOf(1) \cup OutputsOf(2) \subseteq written
    /\ OutputsOf(4) \cap written = {}

Created(k) == "Created: " \o BaseNames[k] \o ".pdf and .png"

\* C4 as stated: the console of a completed run holds one banner line, the four
\* confirmation lines and one banner line, and nothing else.
C4_OneBannerLineEachSide ==
    status = "done" =>
        /\ Len(console) = 6
        /\ \A k \in 1..4 : console[k + 1] = Created(k)

\* C4, amended: the console of a completed run holds exactly eight lines: the title
\* line and a separator of fifty '=', the four confirmation lines in the order of the
\* figures, then the same separator and the closing line.
C4_ConsoleOutput ==
    status = "done" =>
        /\ Len(console) = 8
        /\ console[1] = "Generating figures for XAI Survey Paper..."
        /\ Len(console[2]) = 50 /\ \A i \in 1..50 : SubSeq(console[2], i, i) = "="
        /\ \A k \in 1..4 : console[k + 2] = Created(k)
        /\ console[7] = console[2]
        /\ console[8] = "All figures generated successfully!"

C4_Witness == status = "done" /\ Len(console) > 6

\* The call of a node helper with zero-length text has returned.
NodeReturned == status = "returned" /\ last.op \in NodeHelpers /\ last.text = ""

\* C5 as stated: every node helper, given zero-length text, returns a dictionary
\* with the keys top, bottom and center.
C5_TopBottomCenter == NodeReturned => {"top", "bottom", "center"} \subseteq DOMAIN locals.ret

\* C5, amended: every node helper, given zero-length text, returns a dictionary with
\* the key top; draw_root, draw_category and draw_box return top, bottom and center;
\* draw_method returns center and top but no bottom; draw_diamond, draw_rect and
\* draw_start return top and bottom but no center.
C5_AnchorKeys ==
    NodeReturned =>
        LET keys == DOMAIN locals.ret
        IN  /\ "top" \in keys
            /\ last.op \in {"draw_root", "draw_category", "draw_box"} =>
                   keys = {"top", "bottom", "center"}
            /\ last.op = "draw_method" => keys = {"top", "center"}
            /\ last.op \in {"draw_diamond", "draw_rect", "draw_start"} =>
                   {"top", "bottom"} \subseteq keys /\ "center" \notin keys

C5_Witness ==
    /\ NodeReturned /\ last.op = "draw_method"
    /\ "bottom" \notin DOMAIN locals.ret
    /\ figs[1].items # last.base

\* C6: draw_tree_connection with an empty list of children returns without raising
\* and leaves the figure exactly as it was: no stub and no bar is drawn.
C6_EmptyChildrenNoOp ==
    (status \in {"returned", "raised"} /\ last.op = "draw_tree_connection"
        /\ last.children = <<>>) =>
        /\ status = "returned"
        /\ figs = << [NewFigure(16000, 8000) EXCEPT !.items = last.base] >>

C6_Witness ==
    /\ status = "returned" /\ last.op = "draw_tree_connection" /\ last.children = <<>>
    /\ last.base # <<>> /\ last.color = "#1565C0" /\ last.lw = 2000

-----------------------------------------------------------------------------
(* The taxonomy as drawn: nodes and connector groups read off the items of *)
(* the exported figure.                                                     *)

\* Items of the given kind and shape drawn at z-order z.
Drawn(items, kind, shape, z) ==
    { i \in DOMAIN items :
        items[i].kind = kind /\ items[i].shape = shape /\ items[i].z = z }

RootNodes(items) ==
    { i \in Drawn(items, "patch", "FancyBboxPatch", 10) : items[i].face = Palette.root }

CategoryNodes(items) == Drawn(items, "patch", "FancyBboxPatch", 8)

MethodNodes(items) == Drawn(items, "text", "round", 4)

\* The anchors of the drawn nodes: the root box is 4.0 by 0.8, a category box 3.6 by
\* 0.7, and a method's top anchor lies 0.2 above its centre.
RootBottom(it) == <<it.pts[1][1] + 2000, it.pts[1][2]>>

CategoryTop(it) == <<it.pts[1][1] + 1800, it.pts[1][2] + 700>>

CategoryBottom(it) == <<it.pts[1][1] + 1800, it.pts[1][2]>>

MethodTop(it) == <<it.pts[1][1], it.pts[1][2] + 200>>

HasLine(items, p, q, color) ==
    \E i \in DOMAIN items :
        items[i].kind = "line" /\ items[i].pts = <<p, q>> /\ items[i].edge = color

\* The connector group hanging from parent_bottom, drawn in color, reaches child_top:
\* the parent's stub goes down to the bar, and a stub goes from the bar to the child.
Linked(items, parent_bottom, color, child_top) ==
    LET bar_y == parent_bottom[2] - 300
    IN  /\ HasLine(items, parent_bottom, <<parent_bottom[1], bar_y>>, color)
        /\ HasLine(items, <<child_top[1], bar_y>>, child_top, color)

\* The category a category node shows, by its background colour.
CategoryOf(it) ==
    CHOOSE c \in {"local", "global", "llm"} : it.face = Palette[BgKey(c)]

\* Method node m hangs from the connector group of category node c.
Under(items, c, m) ==
    Linked(items, CategoryBottom(items[c]), Palette[CategoryOf(items[c])], MethodTop(items[m]))

MethodsOf(items, c) == { m \in MethodNodes(items) : Under(items, c, m) }

\* C7: the exported taxonomy has exactly one root node, 3 category nodes and 22 method
\* nodes, 12 under local, 4 under global and 6 under LLM-era; every method is linked
\* to exactly one category's connector group, and every category to the root by the
\* one connector group of the root.
C7_TaxonomyShape ==
    Exported(Png(1)) =>
        LET items == files[Png(1)].figure.items
        IN  /\ Cardinality(RootNodes(items)) = 1
            /\ Cardinality(CategoryNodes(items)) = 3
            /\ Cardinality(MethodNodes(items)) = 22
            /\ \A c \in CategoryNodes(items) :
                  /\ Cardinality(MethodsOf(items, c)) =
                        (CASE CategoryOf(items[c]) = "local" -> 12
                           [] CategoryOf(items[c]) = "global" -> 4
                           [] CategoryOf(items[c]) = "llm" -> 6)
                  /\ \A r \in RootNodes(items) :
                        Linked(items, RootBottom(items[r]), Palette.connector,
                               CategoryTop(items[c]))
            /\ \A m \in MethodNodes(items) :
                  Cardinality({ c \in CategoryNodes(items) : Under(items, c, m) }) = 1
            /\ Cardinality({ i \in DOMAIN items :
                               /\ items[i].kind = "line"
                               /\ items[i].edge = Palette.connector
                               /\ \E r \in RootNodes(items) :
                                     items[i].pts[1] = RootBottom(items[r]) }) = 1

C7_Witness ==
    /\ Exported(Png(1)) /\ Png(1) \in written
    /\ Cardinality(MethodNodes(files[Png(1)].figure.items)) = 22

\* C8: in every exported figure, the colour of each legend entry is the fill or line
\* colour of a node or connector drawn in that figure.
C8_LegendColoursUsed ==
    \A n \in DOMAIN files :
        files[n].complete =>
            LET f == files[n].figure
            IN  \A i \in DOMAIN f.legend :
                   \E j \in DOMAIN f.items :
                      /\ f.items[j].shape # "text"
                      /\ f.legend[i].face \in {f.items[j].face, f.items[j].edge}

C8_Witness ==
    /\ Exported(Png(1)) /\ Exported(Png(2)) /\ Exported(Png(3))
    /\ Len(files[Png(1)].figure.legend) = 3
    /\ Len(files[Png(2)].figure.legend) = 2
    /\ Len(files[Png(3)].figure.legend) = 3

\* C9 as stated: every exported figure has a legend and a caption.
C9_LegendAndCaptionEverywhere ==
    \A n \in DOMAIN files :
        files[n].complete =>
            files[n].figure.legend # <<>> /\ files[n].figure.caption # ""

\* The declared canvas of each figure.
CanvasWidth == << 16000, 15000, 14000, 10500 >>

CanvasHeight == << 8000, 10000, 8000, 10500 >>

\* C9, amended: every routine sets its canvas bounds, places its nodes and exports the
\* figure to <base>.pdf and <base>.png as its last drawing step; the taxonomy, the
\* decision tree and the explainability figure draw connectors and have a legend; only
\* the taxonomy and the decision tree have a caption; the accuracy plot has neither
\* legend nor caption.
C9_RoutineSteps ==
    \A k \in 1..4 :
        /\ \A n \in OutputsOf(k) :
              Exported(n) =>
                  LET f == files[n].figure
                  IN  /\ f.xlim = <<0, CanvasWidth[k]>> /\ f.ylim = <<0, CanvasHeight[k]>>
                      /\ \E j \in DOMAIN f.items : f.items[j].kind \in {"patch", "scatter"}
                      /\ k <= 3 => \E j \in DOMAIN f.items : f.items[j].kind \in {"line", "arrow"}
                      /\ (f.legend # <<>>) <=> (k <= 3)
                      /\ (f.caption # "") <=> (k <= 2)
        /\ (fig = Order[k] /\ Cur.op = "close") =>
              /\ OutputsOf(k) \subseteq written
              /\ Exported(Pdf(k)) /\ Exported(Png(k))
              /\ files[Pdf(k)].figure = figs[Len(figs)]
              /\ files[Png(k)].figure = figs[Len(figs)]

C9_Witness ==
    /\ status = "done"
    /\ files[Png(3)].figure.legend # <<>> /\ files[Png(3)].figure.caption = ""
    /\ files[Png(4)].figure.legend = <<>> /\ files[Png(4)].figure.caption = ""
    /\ files[Png(1)].figure.caption # ""

\* C10: a run that completes after an earlier completed run has issued the same draw
\* instructions in the same order and leaves the same eight files with the same
\* content: files are overwritten, none is added.
C10_RerunSameOutput ==
    (status = "done" /\ run > 1) =>
        /\ log = okLog
        /\ files = okFiles
        /\ DOMAIN files = EightFiles
        /\ written = EightFiles

C10_Witness == status = "done" /\ run = 2 /\ Len(log) > 100 /\ DOMAIN okFiles = EightFiles

-----------------------------------------------------------------------------
(* Shared state *)

\* C11: no routine changes the palette (nor the plotting defaults), no figure is left
\* open between routines, and what a routine writes when it is called alone, first or
\* after any of the others is what it writes in a run of the script.
C11_PaletteReadOnly ==
    /\ COLORS = Palette
    /\ rcParams = RcDefaults
    /\ fig = "none" => figs = <<>>
    /\ run = 2 => \A n \in written : n \in DOMAIN okFiles /\ files[n] = okFiles[n]

C11_Witness ==
    /\ run = 2 /\ fig = "none"
    /\ console = << Created(3), Created(1) >>
    /\ written = OutputsOf(3) \cup OutputsOf(1)

-----------------------------------------------------------------------------
(* Connectors *)

\* draw_tree_connection has returned from a call with at least one child.
TreeReturned ==
    status = "returned" /\ last.op = "draw_tree_connection" /\ last.children # <<>>

\* C12: for a non-empty list of children draw_tree_connection adds exactly 2 + n
\* segments in the given colour and width: the parent's stub from its bottom anchor
\* down to the bar 0.3 below it, the bar from the smallest to the largest child x, and
\* one stub per child from the bar to the child's anchor, in the order of the list.
C12_TreeConnectionSegments ==
    TreeReturned =>
        LET n == Len(last.children)
            b == Len(last.base)
            items == figs[1].items
            bar_y == last.y - 300
            xs == { last.children[i][1] : i \in 1..n }
        IN  /\ Len(items) = b + 2 + n
            /\ SubSeq(items, 1, b) = last.base
            /\ \A j \in (b + 1)..(b + 2 + n) :
                  /\ items[j].kind = "line"
                  /\ items[j].edge = last.color /\ items[j].lw = last.lw
            /\ items[b + 1].pts = << <<last.x, last.y>>, <<last.x, bar_y>> >>
            /\ items[b + 2].pts[1][2] = bar_y /\ items[b + 2].pts[2][2] = bar_y
            /\ items[b + 2].pts[1][1] \in xs /\ \A x \in xs : items[b + 2].pts[1][1] <= x
            /\ items[b + 2].pts[2][1] \in xs /\ \A x \in xs : x <= items[b + 2].pts[2][1]
            /\ \A i \in 1..n :
                  items[b + 2 + i].pts = << <<last.children[i][1], bar_y>>, last.children[i] >>

C12_Witness ==
    /\ TreeReturned /\ Len(last.children) = 2
    /\ last.children[1][1] > last.children[2][1]
    /\ Len(figs[1].items) = Len(last.base) + 4


Horizontal(it) == it.pts[1][2] = it.pts[2][2]

Vertical(it) == it.pts[1][1] = it.pts[2][1]

\* C13: every elbow connector a routine draws is a contiguous right-angle path from the
\* start anchor to the end anchor: for draw_elbow_arrow a horizontal run and a vertical
\* arrow, the mid_x given being the x of the end anchor; for draw_elbow_connection a
\* vertical, a horizontal and a vertical segment.
C13_ElbowsAreRightAngled ==
    /\ (fig # "none" /\ last.op = "draw_elbow_arrow") =>
          LET k == IF last.label # "" THEN 1 ELSE 0
              h == Ax[Len(Ax) - 1 - k]
              v == Ax[Len(Ax) - k]
          IN  /\ h.kind = "line" /\ v.kind = "arrow"
              /\ h.pts[1] = Anchor(last.start)
              /\ h.pts[2] = v.pts[1]
              /\ v.pts[2] = Anchor(last.end)
              /\ Horizontal(h) /\ Vertical(v)
              /\ last.mid_x = Anchor(last.end)[1]
    /\ (fig # "none" /\ last.op = "draw_elbow_connection") =>
          LET a == Ax[Len(Ax) - 2]
              b == Ax[Len(Ax) - 1]
              c == Ax[Len(Ax)]
          IN  /\ a.kind = "line" /\ b.kind = "line" /\ c.kind = "line"
              /\ a.pts[1] = Anchor(last.start)
              /\ a.pts[2] = b.pts[1]
              /\ b.pts[2] = c.pts[1]
              /\ c.pts[2] = Anchor(last.end)
              /\ Vertical(a) /\ Horizontal(b) /\ Vertical(c)

C13_Witness ==
    /\ fig = "create_explainability_approaches" /\ last.op = "draw_elbow_connection"
    /\ Anchor(last.start)[1] # Anchor(last.end)[1]
    /\ Ax[Len(Ax)].pts[2] = Anchor(last.end)
    /\ Exported(Png(2))

-----------------------------------------------------------------------------
(* Geometry *)

\* Point p lies on the declared canvas of figure k.
InCanvas(p, k) ==
    /\ 0 <= p[1] /\ p[1] <= CanvasWidth[k]
    /\ 0 <= p[2] /\ p[2] <= CanvasHeight[k]

\* The lists of method nodes of the taxonomy, with the x range of the background
\* region of their category.
MethodLists ==
    [ local_methods |-> <<500, 5500>>, global_methods |-> <<5500, 10500>>,
      llm_methods |-> <<10500, 15500>> ]

AllOnCanvas(d, k) == \A key \in DOMAIN d : InCanvas(d[key], k)

\* C14: in every figure the centre of every node placed and every anchor a node helper
\* returned lie on the figure's declared canvas, and every method node of the taxonomy
\* has its centre inside the background region of its category.
C14_NodesOnCanvas ==
    \A k \in 1..4 :
        fig = Order[k] =>
            /\ last.op \in NodeHelpers \cup {"scatter"} => InCanvas(<<last.x, last.y>>, k)
            /\ \A n \in DOMAIN locals \ DOMAIN MethodLists : AllOnCanvas(locals[n], k)
            /\ \A n \in DOMAIN locals \cap DOMAIN MethodLists :
                  \A i \in DOMAIN locals[n] :
                     /\ AllOnCanvas(locals[n][i], k)
                     /\ MethodLists[n][1] <= locals[n][i].center[1]
                     /\ locals[n][i].center[1] <= MethodLists[n][2]

C14_Witness ==
    /\ fig = "create_taxonomy_diagram" /\ last.op = "draw_method"
    /\ Len(ListOf("local_methods")) = 12 /\ Len(ListOf("global_methods")) = 4
    /\ Len(ListOf("llm_methods")) = 6
    /\ {"root", "local_cat", "global_cat", "llm_cat"} \subseteq DOMAIN locals

-----------------------------------------------------------------------------
(* Order of the steps that end a routine *)

Printed(line) == \E i \in DOMAIN console : console[i] = line

\* C15: in every routine the PDF is written before the PNG, the confirmation line is
\* printed only after both files are written, and the figure is closed only after the
\* confirmation; the closing line of the script is printed only after all four
\* confirmations. So a printed confirmation means both files exist, and a PNG never
\* exists without its PDF.
C15_SaveConfirmClose ==
    /\ [](\A k \in 1..4 :
            /\ Png(k) \in written => Pdf(k) \in written /\ Exported(Pdf(k))
            /\ Png(k) \in DOMAIN files => Pdf(k) \in DOMAIN files
            /\ Printed(Created(k)) =>
                  OutputsOf(k) \subseteq written /\ Exported(Pdf(k)) /\ Exported(Png(k))
            /\ Printed("All figures generated successfully!") => Printed(Created(k)))
    /\ [][Len(figs') < Len(figs) =>
             \E k \in 1..4 : fig = Order[k] /\ Printed(Created(k))]_vars

C15_Witness ==
    /\ fig = "create_decision_tree" /\ last.op = "print" /\ Len(figs) = 1
    /\ Printed(Created(1)) /\ Printed(Created(2)) /\ run = 1
    /\ written = OutputsOf(1) \cup OutputsOf(2)

-----------------------------------------------------------------------------
(* Tree connections of the taxonomy *)

TreeConnected ==
    fig = "create_taxonomy_diagram" /\ last.op = "draw_tree_connection"

\* C16: at each of the four draw_tree_connection calls of the taxonomy the parent's x
\* lies between the smallest and the largest child x, the bar lies strictly below the
\* parent's bottom anchor, and every child anchor lies strictly below the bar, so each
\* connection is drawn as a tree hanging from the parent.
C16_TreeHangsFromParent ==
    TreeConnected =>
        LET parent   == Anchor(last.parent)
            children == Children(last)
            n        == Len(children)
            stub     == Ax[Len(Ax) - n - 1]
            bar      == Ax[Len(Ax) - n]
            bar_y    == bar.pts[1][2]
        IN  /\ n > 0
            /\ stub.pts = << parent, <<parent[1], bar_y>> >>
            /\ bar.pts = << <<MinX(children), bar_y>>, <<MaxX(children), bar_y>> >>
            /\ MinX(children) <= parent[1] /\ parent[1] <= MaxX(children)
            /\ bar_y < parent[2]
            /\ \A i \in 1..n :
                  /\ children[i][2] < bar_y
                  /\ Ax[Len(Ax) - n + i].pts = << <<children[i][1], bar_y>>, children[i] >>

C16_Witness ==
    /\ TreeConnected /\ last.list = "llm_methods" /\ Len(Children(last)) = 6
    /\ Cardinality({ i \in DOMAIN Ax : Ax[i].kind = "line" }) = 4 * 2 + 3 + 12 + 4 + 6

====
